---- MODULE Spec2Model ----
(***************************************************************************)
(* Model of src/server.js: the prompting automarker.                       *)
(*                                                                         *)
(*   - the session gate (/api/unlock, requireSession, /api/logout) over a  *)
(*     clock in seconds;                                                   *)
(*   - the helpers clampStr, wordCount, hasAny, statusFromLevel, tagStatus;*)
(*   - the deterministic marker markPromptingResponse;                     *)
(*   - the /api/mark route.                                                *)
(*                                                                         *)
(* Texts are TLA+ strings over ASCII.  Characters of the source that are   *)
(* not ASCII are written with a stand-in:                                  *)
(*     "~"  stands for U+2019 (the curly apostrophe of "you~re a", "i~m"), *)
(*     "-"  stands for the en and em dashes of the feedback messages.      *)
(***************************************************************************)
EXTENDS Integers, Sequences, FiniteSets, TLC

VARIABLES
    now,      \* Math.floor(Date.now() / 1000)
    ticks,    \* number of clock steps taken (bounds the clock)
    issued,   \* every session cookie the server has sent so far (history)
    jar,      \* the browser's cookie jar: the cookie it holds, or NoCookie
    resp,     \* the last HTTP exchange: request and response
    input,    \* the answer handed to the marker / the learner's current draft
    call,     \* the last invocation of markPromptingResponse
    prev      \* the invocation before the learner's last edit

vars == <<now, ticks, issued, jar, resp, input, call, prev>>

(***************************************************************************)
(* Program constants                                                       *)
(***************************************************************************)
ACCESS_CODE == "FETHINK-ETHICS1"
SESSION_MINUTES == 120
ClampMax == 6000
MinWords == 50

(***************************************************************************)
(* Bounds of the model                                                     *)
(***************************************************************************)
MaxTicks == 3       \* clock steps in one behaviour
MaxSessions == 2    \* successful unlocks in one behaviour
MaxEdits == 1       \* trigger phrases the learner adds to a draft
SlackWords == 4     \* filler-word counts range over MinWords-SlackWords-4 .. MinWords+1

(***************************************************************************)
(* Characters and strings                                                  *)
(***************************************************************************)
At(s, i) == SubSeq(s, i, i)

WhiteSpace == {" ", "\t", "\n"}
IsWs(c) == c \in WhiteSpace

LowerLetters == {"a","b","c","d","e","f","g","h","i","j","k","l","m",
                 "n","o","p","q","r","s","t","u","v","w","x","y","z"}
UpperLetters == {"A","B","C","D","E","F","G","H","I","J","K","L","M",
                 "N","O","P","Q","R","S","T","U","V","W","X","Y","Z"}
Digits == {"0","1","2","3","4","5","6","7","8","9"}

\* \w of a JavaScript regular expression
IsWordChar(c) == c \in LowerLetters \cup UpperLetters \cup Digits \cup {"_"}

LowerOf ==
    ("A" :> "a") @@ ("B" :> "b") @@ ("C" :> "c") @@ ("D" :> "d") @@ ("E" :> "e") @@
    ("F" :> "f") @@ ("G" :> "g") @@ ("H" :> "h") @@ ("I" :> "i") @@ ("J" :> "j") @@
    ("K" :> "k") @@ ("L" :> "l") @@ ("M" :> "m") @@ ("N" :> "n") @@ ("O" :> "o") @@
    ("P" :> "p") @@ ("Q" :> "q") @@ ("R" :> "r") @@ ("S" :> "s") @@ ("T" :> "t") @@
    ("U" :> "u") @@ ("V" :> "v") @@ ("W" :> "w") @@ ("X" :> "x") @@ ("Y" :> "y") @@
    ("Z" :> "z")

\* String.prototype.toLowerCase
RECURSIVE toLowerCase(_)
toLowerCase(s) ==
    IF Len(s) = 0 THEN ""
    ELSE IF Len(s) = 1 THEN (IF s \in UpperLetters THEN LowerOf[s] ELSE s)
    ELSE LET h == Len(s) \div 2
         IN  toLowerCase(SubSeq(s, 1, h)) \o toLowerCase(SubSeq(s, h + 1, Len(s)))

\* String.prototype.includes
includes(t, n) ==
    \E i \in 1..(Len(t) - Len(n) + 1) : SubSeq(t, i, i + Len(n) - 1) = n

\* String.prototype.slice(0, max)
slice0(s, max) == IF Len(s) <= max THEN s ELSE SubSeq(s, 1, max)

RECURSIVE LeadingWs(_, _)
LeadingWs(s, i) ==
    IF i <= Len(s) /\ IsWs(At(s, i)) THEN LeadingWs(s, i + 1) ELSE i - 1

RECURSIVE TrailingWs(_, _)
TrailingWs(s, i) ==
    IF i >= 1 /\ IsWs(At(s, i)) THEN TrailingWs(s, i - 1) ELSE Len(s) - i

\* String.prototype.trim
trim(s) ==
    LET a == LeadingWs(s, 1)
    IN  IF a = Len(s) THEN ""
        ELSE SubSeq(s, a + 1, Len(s) - TrailingWs(s, Len(s)))

\* t.split(/\s+/): the separators are the maximal runs of white space and the
\* pieces are what lies between them; the first (last) piece is empty when t
\* starts (ends) with a separator.  Returned as the record of the number of
\* pieces and the number of empty pieces among them.
splitWs(t) ==
    LET seps == {i \in 1..Len(t) : IsWs(At(t, i)) /\ (i = 1 \/ ~IsWs(At(t, i - 1)))}
        emptyFirst == IF Len(t) = 0 \/ IsWs(At(t, 1)) THEN 1 ELSE 0
        emptyLast  == IF Len(t) > 0 /\ IsWs(At(t, Len(t))) THEN 1 ELSE 0
    IN  [pieces |-> Cardinality(seps) + 1,
         empty  |-> IF Len(t) = 0 THEN 1 ELSE emptyFirst + emptyLast]

(***************************************************************************)
(* JavaScript values that can arrive as an answer                          *)
(***************************************************************************)
JsString(s) == [kind |-> "string", str |-> s]
JsNull      == [kind |-> "null"]
JsUndefined == [kind |-> "undefined"]
JsNumber(n) == [kind |-> "number", num |-> n]
JsBoolean(b) == [kind |-> "boolean", bool |-> b]
JsObject    == [kind |-> "object"]

\* ToBoolean: the left operand of  s || ""
Truthy(v) ==
    CASE v.kind = "string"    -> Len(v.str) > 0
      [] v.kind = "number"    -> v.num # 0
      [] v.kind = "boolean"   -> v.bool
      [] v.kind = "object"    -> TRUE
      [] OTHER                -> FALSE      \* null, undefined

DigitOf == <<"1", "2", "3", "4", "5", "6", "7", "8", "9">>

\* String(v)
JsToString(v) ==
    CASE v.kind = "string"    -> v.str
      [] v.kind = "number"    -> IF v.num = 0 THEN "0" ELSE DigitOf[v.num]
      [] v.kind = "boolean"   -> IF v.bool THEN "true" ELSE "false"
      [] v.kind = "object"    -> "[object Object]"
      [] v.kind = "null"      -> "null"
      [] OTHER                -> "undefined"

\* String(s || "")
StringOrEmpty(v) == IF Truthy(v) THEN JsToString(v) ELSE ""

(***************************************************************************)
(* Helpers (server.js 61-74)                                               *)
(***************************************************************************)
clampStr(s, max) == slice0(StringOrEmpty(s), max)

\* wordCount without trim() and filter(Boolean): the empty pieces count as words
wordCount_untrimmed(text) ==
    LET t == StringOrEmpty(text)
    IN  IF Len(t) = 0 THEN 0 ELSE splitWs(t).pieces

wordCount(text) ==
    LET t == trim(StringOrEmpty(text))
    IN  IF Len(t) = 0 THEN 0
        ELSE LET sp == splitWs(t) IN sp.pieces - sp.empty

hasAny(text, needles) ==
    LET t == toLowerCase(text)
    IN  \E k \in 1..Len(needles) : includes(t, needles[k])

\* /\b<label>\b\s*:/.test(t)
labelRegex(t, label) ==
    \E i \in 1..(Len(t) - Len(label)) :
        /\ SubSeq(t, i, i + Len(label) - 1) = label
        /\ (i = 1 \/ ~IsWordChar(At(t, i - 1)))
        /\ ~IsWordChar(At(t, i + Len(label)))
        /\ \E j \in (i + Len(label))..Len(t) :
              /\ At(t, j) = ":"
              /\ \A k \in (i + Len(label))..(j - 1) : IsWs(At(t, k))

(***************************************************************************)
(* Status helpers (server.js 157-169)                                      *)
(***************************************************************************)
statusFromLevel(level) ==
    IF level >= 2 THEN "Secure"
    ELSE IF level = 1 THEN "Developing"
    ELSE "Missing"

tagStatus(level) ==
    IF level >= 2 THEN "ok"
    ELSE IF level = 1 THEN "mid"
    ELSE "bad"

(***************************************************************************)
(* Module scope of server.js: the identifiers its top level binds.         *)
(* An identifier that is neither bound here nor a global raises             *)
(* ReferenceError when it is evaluated.                                     *)
(***************************************************************************)
ModuleBindings ==
    {"express", "cors", "cookieParser", "crypto", "app",
     "ACCESS_CODE", "COOKIE_SECRET", "SESSION_MINUTES",
     "COURSE_BACK_URL", "NEXT_LESSON_URL", "COOKIE_NAME",
     "setSessionCookie", "isSessionValid", "requireSession",
     "clampStr", "wordCount", "hasAny",
     "QUESTION_TEXT", "TEMPLATE_TEXT", "MODEL_ANSWER", "FRAMEWORK",
     "FAILURE_THEMES", "REC_THEMES", "statusFromLevel", "tagStatus",
     "markPromptingResponse", "port"}

(***************************************************************************)
(* Static content                                                          *)
(***************************************************************************)
MODEL_ANSWER == "1. Key ethical or legal failures ..."

GateMessage ==
    "Please add to your answer.\n" \o
    "This response is too short to demonstrate the full prompt structure.\n" \o
    "Aim for at least 50 words and include: role, task, context, and format."

(***************************************************************************)
(* Trigger phrases (server.js 201-215)                                     *)
(***************************************************************************)
RoleNeedles ==
    <<"you are a", "act as", "as a", "assume the role", "take the role",
      "you~re a", "you are an">>
TaskNeedles ==
    <<"give me", "create", "produce", "generate", "write", "plan", "build",
      "summarise", "summarize", "list", "draft">>
ContextNeedles ==
    <<"i am", "i~m", "we are", "for someone", "for colleagues", "for a visitor",
      "first time", "staying", "in june", "audience", "for">>
FormatNeedles ==
    <<"bullet", "bullets", "table", "headings", "tone", "professional",
      "friendly", "constraints", "include", "must", "ensure", "distance",
      "fees", "costs", "time", "morning", "afternoon">>

(***************************************************************************)
(* Values of the result: a field is either null or holds a value           *)
(***************************************************************************)
Null == [isNull |-> TRUE]
Some(v) == [isNull |-> FALSE, val |-> v]

Count(flags) == Cardinality({i \in 1..Len(flags) : flags[i]})

StrengthOf ==
    <<"You set a clear role for the AI, which improves relevance.",
      "You stated what you want the AI to do, which makes the request actionable.",
      "You included context about the situation/audience, which helps the AI tailor the response.",
      "You specified format/constraints, which improves structure and usefulness.">>

MissingOf ==
    <<"Add a **role** (who should the AI act as?).",
      "Add a clear **task** (what should the AI produce/do?).",
      "Add **context** (who is it for, where/when, key details).",
      "Add **format/constraints** (bullets, tone, required info, limits).">>

\* the entries of list whose flag is keep, in order (the if (..) push(..) lines)
RECURSIVE Pushed(_, _, _, _)
Pushed(flags, keep, list, i) ==
    IF i > Len(flags) THEN <<>>
    ELSE (IF flags[i] = keep THEN <<list[i]>> ELSE <<>>) \o Pushed(flags, keep, list, i + 1)

RECURSIVE join(_, _)
join(list, sep) ==
    IF Len(list) = 0 THEN ""
    ELSE IF Len(list) = 1 THEN list[1]
    ELSE list[1] \o sep \o join(Tail(list), sep)

\* server.js 220-223
scoreOf(presentCount) ==
    IF presentCount = 4 THEN 10
    ELSE IF presentCount >= 2 THEN 7
    ELSE 3

\* server.js 242-245
rubricMsgOf(presentCount) ==
    IF presentCount = 4 THEN "Excellent - you~ve followed the prompt formula."
    ELSE IF presentCount >= 2 THEN "Good - try adding audience or tone to strengthen further."
    ELSE "Needs improvement - use the formula: role, task, context, format."

\* server.js 226-232
strengthsOf(flags) ==
    LET strengths == Pushed(flags, TRUE, StrengthOf, 1)
    IN  SubSeq(strengths, 1, IF Len(strengths) < 3 THEN Len(strengths) ELSE 3)

\* server.js 255-261
tagsOf(flags) ==
    LET presentCount == Count(flags)
    IN  <<[name |-> "Role",    status |-> tagStatus(IF flags[1] THEN 2 ELSE 0)],
          [name |-> "Task",    status |-> tagStatus(IF flags[2] THEN 2 ELSE 0)],
          [name |-> "Context", status |-> tagStatus(IF flags[3] THEN 2 ELSE 0)],
          [name |-> "Format",  status |-> tagStatus(IF flags[4] THEN 2 ELSE 0)],
          [name |-> "Clarity", status |-> tagStatus(IF presentCount >= 3 THEN 2
                                                    ELSE IF presentCount = 2 THEN 1 ELSE 0)]>>

\* server.js 264-270
gridOf(flags) ==
    LET presentCount == Count(flags)
    IN  [ethical   |-> statusFromLevel(IF flags[1] THEN 2 ELSE 0),
         impact    |-> statusFromLevel(IF flags[2] THEN 2 ELSE 0),
         legal     |-> statusFromLevel(IF flags[3] THEN 2 ELSE 0),
         recs      |-> statusFromLevel(IF flags[4] THEN 2 ELSE 0),
         structure |-> statusFromLevel(IF presentCount = 4 THEN 2
                                       ELSE IF presentCount >= 2 THEN 1 ELSE 0)]

\* server.js 201-215: the four presence flags of the answer text
detect(text) ==
    LET t == toLowerCase(text)
    IN  <<labelRegex(t, "role")    \/ hasAny(t, RoleNeedles),
          labelRegex(t, "task")    \/ hasAny(t, TaskNeedles),
          labelRegex(t, "context") \/ hasAny(t, ContextNeedles),
          labelRegex(t, "format")  \/ hasAny(t, FormatNeedles)>>

\* server.js 197-270: the locals of the ungated path when the return statement
\* is reached
localsOf(answerText, wc) ==
    LET flags == detect(StringOrEmpty(answerText))
        presentCount == Count(flags)
        missing == Pushed(flags, FALSE, MissingOf, 1)
    IN  [wc           |-> wc,
         flags        |-> flags,
         presentCount |-> presentCount,
         score        |-> scoreOf(presentCount),
         strengthsTop |-> strengthsOf(flags),
         rubricMsg    |-> rubricMsgOf(presentCount),
         feedback     |-> rubricMsgOf(presentCount) \o "\n\n" \o
                          (IF Len(missing) = 0
                           THEN "Strong prompt - it includes role, task, context and format."
                           ELSE "To strengthen it:\n- " \o join(missing, "\n- ")),
         tags         |-> tagsOf(flags),
         grid         |-> gridOf(flags)]

NoLocals == [wc |-> -1]

\* a gated result that still carries a score
gatedResult_scored(wc) ==
    [gated |-> TRUE, wordCount |-> wc, message |-> Some(GateMessage),
     score |-> Some(0), feedback |-> Null, strengths |-> Null, tags |-> Null,
     grid |-> Null, framework |-> Null, modelAnswer |-> Null]

\* server.js 180-194
gatedResult(wc) ==
    [gated |-> TRUE, wordCount |-> wc, message |-> Some(GateMessage),
     score |-> Null, feedback |-> Null, strengths |-> Null, tags |-> Null,
     grid |-> Null, framework |-> Null, modelAnswer |-> Null]

\* server.js 272-282, the object the return statement builds once every
\* identifier in it has been evaluated
fullResult(l, framework) ==
    [gated |-> FALSE, wordCount |-> l.wc, message |-> Null,
     score |-> Some(l.score), feedback |-> Some(l.feedback),
     strengths |-> Some(l.strengthsTop), tags |-> Some(l.tags),
     grid |-> Some(l.grid), framework |-> Some(framework),
     modelAnswer |-> Some(MODEL_ANSWER)]

NoResult == [gated |-> FALSE, wordCount |-> -1]

\* An invocation that returned / that threw.  locals are the function's
\* locals at the point where it stopped (NoLocals on the gated path, which
\* computes none).
Returned(result, locals) ==
    [done |-> TRUE, returned |-> TRUE, error |-> "", result |-> result, locals |-> locals]
Threw(error, locals) ==
    [done |-> TRUE, returned |-> FALSE, error |-> error, result |-> NoResult, locals |-> locals]
NoCall ==
    [done |-> FALSE, returned |-> FALSE, error |-> "", result |-> NoResult, locals |-> NoLocals]

\* no edit of the draft yet / the draft's last edit: how many phrases were
\* added, the element the last one was added for, the marking before it
NoEdit == [edits |-> 0, element |-> 0, before |-> NoCall]

\* server.js 175-283
markPromptingResponse(answerText) ==
    LET wc == wordCount(answerText)
    IN  IF wc < MinWords
        THEN Returned(gatedResult(wc), NoLocals)
        ELSE LET l == localsOf(answerText, wc)
             IN  IF "LEARN_MORE_TEXT" \in ModuleBindings
                 THEN Returned(fullResult(l, "LEARN_MORE_TEXT"), l)
                 ELSE Threw("ReferenceError: LEARN_MORE_TEXT is not defined", l)

(***************************************************************************)
(* Answers under test.  A text is described by how it is laid out:         *)
(*   lead, sep, trail  white space before, between and after its tokens    *)
(*   front             phrases before the filler words                     *)
(*   words             number of filler words ("x", no trigger in them)    *)
(*   first             length of the first filler word                     *)
(*   tail              phrases after the filler words                      *)
(***************************************************************************)
RECURSIVE Rep(_, _)
Rep(s, n) ==
    IF n <= 0 THEN ""
    ELSE IF n % 2 = 0 THEN LET h == Rep(s, n \div 2) IN h \o h
    ELSE s \o Rep(s, n - 1)

Build(d, first) ==
    LET fillers == [i \in 1..d.words |-> IF i = 1 THEN Rep("x", first) ELSE "x"]
    IN  d.lead \o join(d.front \o fillers \o d.tail, d.sep) \o d.trail

TextOf(d) == Build(d, d.first)

\* the JavaScript value an input stands for
ValueOf(in) == IF in.kind = "text" THEN JsString(TextOf(in)) ELSE in

LabelPhrase == <<"Role:", "Task :", "CONTEXT:", "Format:">>
CuePhrase   == <<"Act as", "Create", "audience", "must">>

\* the phrases of the elements in S, in the order Role, Task, Context, Format
RECURSIVE PhrasesOf(_, _, _)
PhrasesOf(S, table, i) ==
    IF i > Len(table) THEN <<>>
    ELSE (IF i \in S THEN <<table[i]>> ELSE <<>>) \o PhrasesOf(S, table, i + 1)

Fronts == {PhrasesOf(S, table, 1) : S \in SUBSET (1..4), table \in {LabelPhrase, CuePhrase}}

WordChoices == {0, 1} \cup ((MinWords - SlackWords - 2)..(MinWords + 1))

Layouts == {[lead |-> "", sep |-> " ", trail |-> ""],
            [lead |-> "\n ", sep |-> " \t", trail |-> "  "]}

\* pad "none": every filler word is "x"; "fill": the first filler word is
\* lengthened until the text is exactly ClampMax characters; "over": until the
\* tail starts right after the first ClampMax characters
Text(lay, front, words, pad, tail) ==
    LET d == [kind |-> "text", lead |-> lay.lead, sep |-> lay.sep, trail |-> lay.trail,
              front |-> front, words |-> words, first |-> 1, tail |-> tail]
        tailLen == Len(join(tail, lay.sep)) + Len(lay.trail)
        extra == CASE pad = "fill" -> ClampMax - Len(Build(d, 1))
                   [] pad = "over" -> ClampMax - (Len(Build(d, 1)) - tailLen)
                   [] OTHER        -> 0
    IN  [d EXCEPT !.first = IF extra > 0 /\ words > 0 THEN 1 + extra ELSE 1]

Plain == [lead |-> "", sep |-> " ", trail |-> ""]

ShortTexts == {Text(lay, f, w, "none", <<>>) : lay \in Layouts, f \in Fronts, w \in WordChoices}

\* texts at the clamp: exactly ClampMax characters, or with phrases beyond it
LongTexts ==
    {Text(Plain, f, MinWords, pad, t) :
        f \in {<<>>, <<"Act as">>}, pad \in {"fill", "over"},
        t \in {<<>>, <<"Create", "must">>, <<"audience">>}}

NonStrings ==
    {JsNull, JsUndefined, JsNumber(0), JsNumber(7), JsBoolean(TRUE), JsBoolean(FALSE), JsObject}

\* white-space-only strings
BlankTexts == {Text([lead |-> l, sep |-> " ", trail |-> ""], <<>>, 0, "none", <<>>) :
                  l \in {" ", "\n\t "}}

Inputs == ShortTexts \cup LongTexts \cup BlankTexts \cup NonStrings

(***************************************************************************)
(* Session cookie (server.js 21-58).                                       *)
(* A cookie is its payload text and who signed it.  cookie-parser hands    *)
(* the payload of a cookie to the handlers only when its signature was     *)
(* made with COOKIE_SECRET, which only this process holds ("server");      *)
(* a cookie with any other signature, or none, yields false.               *)
(* The payload text is described by what JSON.parse makes of it:           *)
(*   parses   FALSE when JSON.parse throws                                 *)
(*   expType  typeof payload.exp                                           *)
(*   exp      payload.exp when it is a number                              *)
(***************************************************************************)
SessionSeconds == SESSION_MINUTES * 60

NoCookie == [sig |-> "none", parses |-> FALSE, expType |-> "undefined", exp |-> 0]
Cookie(sig, exp) == [sig |-> sig, parses |-> TRUE, expType |-> "number", exp |-> exp]
GarbageCookie(sig) == [sig |-> sig, parses |-> FALSE, expType |-> "undefined", exp |-> 0]
StringExpCookie(sig) == [sig |-> sig, parses |-> TRUE, expType |-> "string", exp |-> 0]

\* server.js 23-36: the cookie res.cookie(.., {signed: true}) sends
setSessionCookie(t) == Cookie("server", t + SessionSeconds)

\* req.signedCookies?.[COOKIE_NAME] is a non-empty string
hasSignedCookie(cookie) == cookie.sig = "server"

\* isSessionValid reading req.cookies instead of req.signedCookies
isSessionValid_unsigned(cookie, t) ==
    IF cookie.sig = "none" THEN FALSE
    ELSE IF ~cookie.parses THEN FALSE
    ELSE cookie.expType = "number" /\ t < cookie.exp

\* isSessionValid with now <= payload.exp
isSessionValid_inclusive(cookie, t) ==
    IF ~hasSignedCookie(cookie) THEN FALSE
    ELSE IF ~cookie.parses THEN FALSE
    ELSE cookie.expType = "number" /\ t <= cookie.exp

\* server.js 38-51
isSessionValid(cookie, t) ==
    IF ~hasSignedCookie(cookie) THEN FALSE
    ELSE IF ~cookie.parses THEN FALSE
    ELSE cookie.expType = "number" /\ t < cookie.exp

(***************************************************************************)
(* HTTP exchanges                                                          *)
(***************************************************************************)
NoResp ==
    [route |-> "none", at |-> 0, cookie |-> NoCookie, code |-> "", answer |-> JsUndefined,
     status |-> 0, error |-> "", result |-> Null]

Exchange(route, cookie, code, answer, status, error, result) ==
    [route |-> route, at |-> now, cookie |-> cookie, code |-> code, answer |-> answer,
     status |-> status, error |-> error, result |-> result]

\* the unlock codes a client may post (req.body?.code)
Codes ==
    {JsUndefined, JsString("  "), JsString(ACCESS_CODE),
     JsString(" " \o ACCESS_CODE \o "\n"), JsString("FETHINK-ETHICS2"), JsString("letmein")}

\* cookies a client can present without the server's secret
ForgedCookies ==
    {GarbageCookie("forged"), StringExpCookie("forged"),
     Cookie("forged", now + SessionSeconds), Cookie("none", now + SessionSeconds)}

\* every cookie a client can present: none, forged ones, and any the server sent
Presentable == {NoCookie} \cup ForgedCookies \cup {s.cookie : s \in issued}

\* server.js 298-311, POST /api/unlock
Unlock(raw) ==
    LET code == trim(StringOrEmpty(raw))
    IN  /\ IF Len(code) = 0
           THEN /\ resp' = Exchange("unlock", NoCookie, code, JsUndefined, 400, "missing_code", Null)
                /\ UNCHANGED <<issued, jar>>
           ELSE IF code # ACCESS_CODE
           THEN /\ resp' = Exchange("unlock", NoCookie, code, JsUndefined, 401, "incorrect_code", Null)
                /\ UNCHANGED <<issued, jar>>
           ELSE /\ Cardinality(issued) < MaxSessions
                /\ resp' = Exchange("unlock", NoCookie, code, JsUndefined, 200, "", Null)
                /\ issued' = issued \cup {[cookie |-> setSessionCookie(now), at |-> now, code |-> code]}
                /\ jar' = setSessionCookie(now)
        /\ call' = NoCall
        /\ UNCHANGED <<now, ticks, input, prev>>

\* server.js 314-315: the body of the /api/mark handler
markBody(answer) ==
    LET answerText == clampStr(ValueOf(answer), ClampMax)
    IN  markPromptingResponse(JsString(answerText))

\* the answers posted to /api/mark in Spec
ApiAnswers ==
    {JsUndefined,
     Text(Plain, <<"Act as">>, MinWords - 3, "none", <<>>),
     Text(Plain, <<"Act as", "Create">>, MinWords, "none", <<>>)}

\* markBody is a function of the answer alone; its values on ApiAnswers are
\* computed once
MarkTable == [a \in ApiAnswers |-> markBody(a)]

markRoute(answer) == IF answer \in ApiAnswers THEN MarkTable[answer] ELSE markBody(answer)

\* server.js 53-58 and 313-317, POST /api/mark behind requireSession; an
\* exception of the handler is answered 500 by express
Mark(cookie, answer) ==
    /\ IF ~isSessionValid(cookie, now)
       THEN /\ resp' = Exchange("mark", cookie, "", answer, 401, "unauthorized", Null)
            /\ call' = NoCall
       ELSE LET r == markRoute(answer)
            IN  /\ call' = r
                /\ resp' = IF r.returned
                           THEN Exchange("mark", cookie, "", answer, 200, "", Some(r.result))
                           ELSE Exchange("mark", cookie, "", answer, 500, r.error, Null)
    /\ UNCHANGED <<now, ticks, issued, jar, input, prev>>

\* server.js 319-322, POST /api/logout: the browser is told to drop the cookie
Logout ==
    /\ resp' = Exchange("logout", jar, "", JsUndefined, 200, "", Null)
    /\ jar' = NoCookie
    /\ call' = NoCall
    /\ UNCHANGED <<now, ticks, issued, input, prev>>

\* the clock
TickSteps == {1, SessionSeconds - 1}

Tick(d) ==
    /\ ticks < MaxTicks
    /\ now' = now + d
    /\ ticks' = ticks + 1
    /\ UNCHANGED <<issued, jar, resp, input, call, prev>>

Init ==
    /\ now = 0 /\ ticks = 0 /\ issued = {} /\ jar = NoCookie /\ resp = NoResp
    /\ input = JsUndefined /\ call = NoCall /\ prev = NoEdit

Next ==
    \/ \E raw \in Codes : Unlock(raw)
    \/ \E c \in Presentable \cup {jar}, a \in ApiAnswers : Mark(c, a)
    \/ Logout
    \/ \E d \in TickSteps : Tick(d)

Spec == Init /\ [][Next]_vars

(***************************************************************************)
(* MarkerSpec: markPromptingResponse applied to one input                  *)
(***************************************************************************)
MarkerInit ==
    /\ now = 0 /\ ticks = 0 /\ issued = {} /\ jar = NoCookie /\ resp = NoResp
    /\ input \in Inputs
    /\ call = NoCall
    /\ prev = NoEdit

Call ==
    /\ ~call.done
    /\ call' = markPromptingResponse(ValueOf(input))
    /\ UNCHANGED <<now, ticks, issued, jar, resp, input, prev>>

MarkerNext == Call

MarkerSpec == MarkerInit /\ [][MarkerNext]_vars

(***************************************************************************)
(* EditSpec: a learner unlocks, posts a draft to /api/mark, adds a trigger *)
(* phrase for an element the marking found missing, and posts again        *)
(***************************************************************************)
Drafts == {d \in ShortTexts : d.words >= MinWords} \cup {d \in LongTexts : Len(TextOf(d)) = ClampMax}

EditInit ==
    /\ now = 0 /\ ticks = 0 /\ issued = {} /\ jar = NoCookie /\ resp = NoResp
    /\ input \in Drafts
    /\ call = NoCall
    /\ prev = NoEdit

\* the learner unlocks once, and posts a draft that has no marking yet
UnlockOk == jar = NoCookie /\ Unlock(JsString(ACCESS_CODE))

PostMark == ~call.done /\ Mark(jar, input)

AddTrigger(e, table, place) ==
    /\ call.done
    /\ call.locals # NoLocals
    /\ ~call.locals.flags[e]
    /\ prev.edits < MaxEdits
    /\ input' = IF place = "front"
                THEN [input EXCEPT !.front = <<table[e]>> \o @]
                ELSE [input EXCEPT !.tail = @ \o <<table[e]>>]
    /\ prev' = [edits |-> prev.edits + 1, element |-> e, before |-> call]
    /\ call' = NoCall
    /\ UNCHANGED <<now, ticks, issued, jar, resp>>

EditNext ==
    \/ UnlockOk
    \/ PostMark
    \/ \E e \in 1..4, table \in {LabelPhrase, CuePhrase}, place \in {"front", "end"} :
          AddTrigger(e, table, place)

EditSpec == EditInit /\ [][EditNext]_vars

(***************************************************************************)
(* Properties                                                              *)
(***************************************************************************)
\* the input of the last invocation, as a JavaScript value
Arg == ValueOf(input)

IsUngatedCall == call.done /\ call.locals # NoLocals

\* the word count an invocation worked with
WcOf(c) == IF c.returned THEN c.result.wordCount ELSE c.locals.wc

\* number of maximal runs of non-white-space characters of s
TokenCount(s) ==
    Cardinality({i \in 1..Len(s) : ~IsWs(At(s, i)) /\ (i = 1 \/ IsWs(At(s, i - 1)))})

AllWs(s) == \A i \in 1..Len(s) : IsWs(At(s, i))

\* Supporting fact: on the ungated path the locals the marker has computed when
\* it reaches its return statement follow the score table and the rubric tiers.
ComputedScoreFollowsTable ==
    IsUngatedCall =>
        LET l == call.locals
        IN  /\ l.presentCount = Count(detect(StringOrEmpty(Arg)))
            /\ l.score = (IF l.presentCount = 4 THEN 10 ELSE IF l.presentCount >= 2 THEN 7 ELSE 3)
            /\ l.presentCount = 4 => \A i \in 1..4 : l.tags[i].status = "ok"

\* Supporting fact: an answer with fewer than MinWords words is answered with a
\* gated result, and every other answer ends in the ReferenceError.
GatedReturnsUngatedThrows ==
    call.done =>
        IF wordCount(Arg) < MinWords
        THEN call.returned /\ call.result.gated
        ELSE ~call.returned /\ call.error = "ReferenceError: LEARN_MORE_TEXT is not defined"

\* C1: every invocation of markPromptingResponse returns a result, and the
\* result is gated exactly when the answer has fewer than MinWords (50) words.
C1_GateBoundary ==
    call.done =>
        /\ call.returned
        /\ call.result.gated <=> (wordCount(Arg) < MinWords)

\* C2: in every result markPromptingResponse returns, gated implies that score,
\* feedback, strengths, tags, grid, framework and modelAnswer are null, not
\* gated implies that score is a non-null integer, and score is null exactly
\* when gated.
C2_GatedFieldsNull ==
    (call.done /\ call.returned) =>
        LET r == call.result
        IN  /\ r.gated =>
                 /\ r.score = Null /\ r.feedback = Null /\ r.strengths = Null
                 /\ r.tags = Null /\ r.grid = Null /\ r.framework = Null
                 /\ r.modelAnswer = Null
            /\ ~r.gated => (~r.score.isNull /\ r.score.val \in Int)
            /\ r.score.isNull <=> r.gated

\* C2 witness: a 49-word answer that holds trigger phrases was marked and gated
C2_Witness ==
    /\ call.done /\ call.returned /\ call.result.gated
    /\ call.result.wordCount = MinWords - 1
    /\ input.kind = "text" /\ Len(input.front) = 4

\* C4: markPromptingResponse never throws: every invocation returns a result.
C4_Total == call.done => (call.returned /\ call.error = "")

\* C5: for every ungated answer the result's score and rubric tier follow
\* presentCount: 4 -> 10 and "Excellent", 2..3 -> 7 and "Good", 0..1 -> 3 and
\* "Needs improvement"; with all four elements present the four element tags
\* are ok.
C5_ScoreByPresentCount ==
    (call.done /\ wordCount(Arg) >= MinWords) =>
        LET pc == Count(detect(StringOrEmpty(Arg)))
            tier == IF pc = 4 THEN "Excellent" ELSE IF pc >= 2 THEN "Good" ELSE "Needs improvement"
        IN  /\ call.returned
            /\ call.result.score = Some(IF pc = 4 THEN 10 ELSE IF pc >= 2 THEN 7 ELSE 3)
            /\ ~call.result.feedback.isNull
            /\ SubSeq(call.result.feedback.val, 1, Len(tier)) = tier
            /\ pc = 4 => \A i \in 1..4 : call.result.tags.val[i].status = "ok"

\* C6: for every ungated answer the strengths list the marker builds is the
\* sentences of the present elements in the order Role, Task, Context, Format,
\* then one fallback sentence when fewer than 2 elements are present, cut to
\* the first 3: never empty, at most 3 long.
C6_Strengths ==
    IsUngatedCall =>
        LET l == call.locals
            present == Pushed(l.flags, TRUE, StrengthOf, 1)
            expected == l.presentCount + (IF l.presentCount < 2 THEN 1 ELSE 0)
        IN  /\ Len(l.strengthsTop) >= 1
            /\ Len(l.strengthsTop) <= 3
            /\ Len(l.strengthsTop) = (IF expected < 3 THEN expected ELSE 3)
            /\ \A i \in 1..Len(l.strengthsTop) :
                  i <= Len(present) => l.strengthsTop[i] = present[i]

\* the grid level that mirrors a tag status
LevelOfStatus(status) ==
    CASE status = "ok"  -> "Secure"
      [] status = "mid" -> "Developing"
      [] OTHER          -> "Missing"

GridRows == <<"ethical", "impact", "legal", "recs", "structure">>

\* C7: for every ungated answer each of the five grid rows carries the level
\* that corresponds to the status of the tag of the same row.
C7_GridMirrorsTags ==
    IsUngatedCall =>
        \A i \in 1..5 :
            call.locals.grid[GridRows[i]] = LevelOfStatus(call.locals.tags[i].status)

\* is the input one the claim calls malformed or empty
IsBlankText(in) == in.kind = "text" /\ AllWs(TextOf(in))

\* C9 as stated: null, undefined, non-string, empty and white-space-only
\* answers all yield wordCount 0 and a gated result.
C9_MalformedIsEmpty ==
    (call.done /\ (input.kind # "text" \/ IsBlankText(input))) =>
        (call.returned /\ call.result.gated /\ call.result.wordCount = 0)

\* C9 amended: null, undefined, falsy non-strings, empty and white-space-only
\* answers yield wordCount 0 and a gated result; a truthy non-string is counted
\* on its String() form; for a string wordCount is 0 exactly when the trimmed
\* string is empty and otherwise the number of white-space-delimited tokens.
C9_Amended ==
    call.done =>
        /\ (input.kind # "text" /\ ~Truthy(input)) =>
              (call.returned /\ call.result.gated /\ call.result.wordCount = 0)
        /\ IsBlankText(input) =>
              (call.returned /\ call.result.gated /\ call.result.wordCount = 0)
        /\ (input.kind # "text" /\ Truthy(input)) =>
              WcOf(call) = TokenCount(JsToString(input))
        /\ input.kind = "text" =>
              /\ WcOf(call) = 0 <=> AllWs(TextOf(input))
              /\ WcOf(call) = TokenCount(TextOf(input))

\* C9 witness: a white-space-only string was marked
C9_Witness ==
    /\ call.done /\ call.returned /\ call.result.gated
    /\ input.kind = "text" /\ Len(TextOf(input)) > 0 /\ AllWs(TextOf(input))

\* the cookies the server has sent
IssuedCookies == {s.cookie : s \in issued}

\* C3: /api/mark invokes the marker, and answers other than 401, only for a
\* cookie sent by an earlier /api/unlock whose code equalled ACCESS_CODE and
\* before that cookie's exp; with no cookie, a cookie that does not parse, an
\* exp that is not a number, or an expired cookie it answers 401 unauthorized
\* and the marker is not invoked.
C3_SessionPrecondition ==
    resp.route = "mark" =>
        /\ (call.done \/ resp.status # 401) =>
              \E s \in issued :
                  /\ s.cookie = resp.cookie
                  /\ s.code = ACCESS_CODE
                  /\ s.at <= resp.at
                  /\ resp.at < s.cookie.exp
        /\ (\/ resp.cookie.sig = "none"
            \/ ~resp.cookie.parses
            \/ resp.cookie.expType # "number"
            \/ resp.at >= resp.cookie.exp) =>
              (resp.status = 401 /\ resp.error = "unauthorized" /\ ~call.done)

\* C3 witness: the marker ran for a request made some time after the unlock
C3_Witness ==
    /\ resp.route = "mark" /\ resp.status = 200 /\ call.done
    /\ resp.at > 0 /\ resp.cookie \in IssuedCookies

\* C10: a cookie sent at t0 carries exp = t0 + SESSION_MINUTES*60 and
\* /api/mark accepts it at every time before exp and rejects it from exp on,
\* whatever /api/logout and /api/unlock requests came in between.
C10_Stateless ==
    /\ \A s \in issued : s.cookie.exp = s.at + SESSION_MINUTES * 60
    /\ (resp.route = "mark" /\ resp.cookie \in IssuedCookies) =>
          (resp.status # 401 <=> resp.at < resp.cookie.exp)

\* C10 witness: a cookie is accepted after /api/logout made the browser drop it
\* and after a later /api/unlock sent another one
C10_Witness ==
    /\ resp.route = "mark" /\ resp.status # 401
    /\ resp.cookie \in IssuedCookies
    /\ jar = NoCookie
    /\ \E s \in issued : s.at > resp.cookie.exp - SESSION_MINUTES * 60

OkTags(l) == Cardinality({i \in 1..5 : l.tags[i].status = "ok"})

\* C8: when a trigger phrase for a missing element is added to an ungated
\* submission and it is marked again through /api/mark, presentCount, score
\* and the number of ok tags do not decrease.
C8_Monotone ==
    (prev.edits > 0 /\ call.done) =>
        /\ call.locals # NoLocals
        /\ call.locals.presentCount >= prev.before.locals.presentCount
        /\ call.locals.score >= prev.before.locals.score
        /\ OkTags(call.locals) >= OkTags(prev.before.locals)

\* Supporting fact: while the edited submission still fits in ClampMax
\* characters, the values the marker computes do not decrease.
MonotoneWithinClamp ==
    (prev.edits > 0 /\ call.done /\ Len(TextOf(input)) <= ClampMax) =>
        /\ call.locals # NoLocals
        /\ call.locals.presentCount >= prev.before.locals.presentCount
        /\ call.locals.score >= prev.before.locals.score
        /\ OkTags(call.locals) >= OkTags(prev.before.locals)
====
